---------------------------- MODULE Spec2Model ----------------------------
(***************************************************************************)
(* The two SQL test-data generators of nanodb-colstore:                    *)
(*                                                                         *)
(*   schemas/btree-indexes/makedata.py  (PK-Index Generator)   -> SpecPK   *)
(*   schemas/insert-perf/datagen.py     (Insert-Perf Generator) -> Spec    *)
(*                                                                         *)
(* Both are sequential Python 2 scripts.  Each is modelled as a state      *)
(* machine over its module-level variables, its standard output and a     *)
(* program counter.  Text is a sequence of one-character strings, so that  *)
(* strip(), lower(), join, slicing and find() are computed, not assumed.   *)
(* Floating-point values are fixed-point integers in units of 1/Unit.      *)
(***************************************************************************)
EXTENDS Integers, Sequences, FiniteSets, TLC

VARIABLES
    pc,         \* position in the running script
    err,        \* uncaught exception that ended the run ("" if none)
    out,        \* standard output: sequence of line headers
    errout,     \* standard error: the filenames printed by datagen.py:16
    id,         \* loop variable `id` (both scripts)
    \* ---- makedata.py
    ids,        \* the list `ids`
    idx,        \* position of the `for id in ids` iterator (1-based)
    s,          \* result of the last gen_string() call
    \* ---- datagen.py
    argv,       \* sys.argv[1:]
    fi,         \* position of the `for filename in sys.argv[1:]` iterator
    word_set,   \* the set `word_set`
    word_list,  \* the list `word_list`
    num,        \* `num`
    drawn,      \* value of random.sample(word_list, k) in the current row
    k,          \* value of random.randint(3, 20) in the current row
    str,        \* `str`
    a,          \* `a`
    b           \* `b`

vars == <<pc, err, out, errout, id, ids, idx, s,
          argv, fi, word_set, word_list, num, k, drawn, str, a, b>>

pkvars == <<ids, idx, s>>
ipvars == <<argv, fi, word_set, word_list, num, k, drawn, str, a, b, errout>>

---------------------------------------------------------------------------
(* Bounds of the model.  The scripts use 50000 identifiers, payload        *)
(* lengths 5..20 over 62 symbols, 200000 rows and up to 20 words a row;    *)
(* the model keeps the structure and scales the sizes.                     *)

NumIds == 4
AlphaSize == 3
MinLen == 1
MaxLen == 2
NumRows == 2
MaxWords == 4
LongLen == 100

(* Program constants kept at their source values. *)
MinWords == 3
MaxStrLen == 200

Unit == 10^6

Range(f) == {f[i] : i \in DOMAIN f}
Min(x, y) == IF x <= y THEN x ELSE y
Max(x, y) == IF x >= y THEN x ELSE y

---------------------------------------------------------------------------
(* Python 2 standard library, as the scripts use it.                       *)

AsciiLowercase ==
    <<"a","b","c","d","e","f","g","h","i","j","k","l","m",
      "n","o","p","q","r","s","t","u","v","w","x","y","z">>
AsciiUppercase ==
    <<"A","B","C","D","E","F","G","H","I","J","K","L","M",
      "N","O","P","Q","R","S","T","U","V","W","X","Y","Z">>
Digits == <<"0","1","2","3","4","5","6","7","8","9">>

\* string.ascii_letters + string.digits
AsciiLettersDigits == AsciiLowercase \o AsciiUppercase \o Digits

Whitespace == {" ", "\n", "\t", "\r"}

\* random.randint(lo, hi): every integer of the closed range
RandInt(lo, hi) == lo .. hi

\* The index draws int(random() * (n - i)), i = 0..cnt-1, of random.sample
Draws(n, cnt) ==
    {js \in [1..cnt -> 0..(n-1)] : \A i \in 1..cnt : js[i] < n - (i-1)}

\* random.sample's selection loop over a copy `pool` of the population
\* (the branch CPython 2 takes for populations of the sizes modelled):
\*     j = int(random() * (n-i)); result[i] = pool[j]; pool[j] = pool[n-i-1]
\* SampleNoSwap is the loop without the last assignment.
RECURSIVE SampleNoSwap(_, _, _, _)
SampleNoSwap(pool, n, js, i) ==
    IF i = Len(js) THEN <<>>
    ELSE <<pool[js[i+1] + 1]>> \o SampleNoSwap(pool, n, js, i+1)

RECURSIVE SampleLoop(_, _, _, _)
SampleLoop(pool, n, js, i) ==
    IF i = Len(js) THEN <<>>
    ELSE LET j == js[i+1] + 1
         IN  <<pool[j]>> \o SampleLoop([pool EXCEPT ![j] = pool[n-i]], n, js, i+1)

\* random.sample(population, k) for the draws js; defined when k <= len
Sample(population, js) == SampleLoop(population, Len(population), js, 0)

\* The index draws int(random() * (i+1)), i = len-1 .. 1, of random.shuffle
ShuffleDraws(n) == {js \in [1..(n-1) -> 0..(n-1)] : \A i \in 1..(n-1) : js[i] <= i}

\* random.shuffle: for i in reversed(xrange(1, len(x))): x[i], x[j] = x[j], x[i]
\* ShuffleNoSwap is the loop with x[i] = x[j] alone.
RECURSIVE ShuffleNoSwap(_, _, _)
ShuffleNoSwap(x, js, i) ==
    IF i < 1 THEN x
    ELSE ShuffleNoSwap([x EXCEPT ![i+1] = x[js[i] + 1]], js, i-1)

RECURSIVE ShuffleLoop(_, _, _)
ShuffleLoop(x, js, i) ==
    IF i < 1 THEN x
    ELSE LET j == js[i] + 1
         IN  ShuffleLoop([x EXCEPT ![i+1] = x[j], ![j] = x[i+1]], js, i-1)

Shuffle(x, js) == ShuffleLoop(x, js, Len(x) - 1)

LowerChar(c) ==
    IF \E i \in DOMAIN AsciiUppercase : AsciiUppercase[i] = c
    THEN AsciiLowercase[CHOOSE i \in DOMAIN AsciiUppercase : AsciiUppercase[i] = c]
    ELSE c

\* str.lower()
Lower(w) == [i \in DOMAIN w |-> LowerChar(w[i])]

RECURSIVE LStrip(_)
LStrip(w) == IF w # <<>> /\ Head(w) \in Whitespace THEN LStrip(Tail(w)) ELSE w

RECURSIVE RStrip(_)
RStrip(w) ==
    IF w # <<>> /\ w[Len(w)] \in Whitespace THEN RStrip(SubSeq(w, 1, Len(w) - 1)) ELSE w

\* str.strip()
Strip(w) == RStrip(LStrip(w))

\* word.find("'") != -1
HasApostrophe(w) == \E i \in DOMAIN w : w[i] = "'"

\* ' '.join(ws)
RECURSIVE Join(_)
Join(ws) ==
    IF ws = <<>> THEN <<>>
    ELSE IF Len(ws) = 1 THEN ws[1]
    ELSE ws[1] \o <<" ">> \o Join(Tail(ws))

\* list(word_set): one fixed order of the set's elements
ListOf(S) == CHOOSE l \in [1..Cardinality(S) -> S] : Range(l) = S

\* '%g' % x: x rounded to six significant digits (x in units of 1/Unit).
\* |x| < 1 has at most six significant digits at this resolution; a value
\* in [1,10), [10,100), [100,1000) keeps 5, 4, 3 decimals.  Halves round
\* away from zero.
GStep(m) ==
    IF m < Unit THEN 1
    ELSE IF m < 10 * Unit THEN 10
    ELSE IF m < 100 * Unit THEN 100
    ELSE 1000

RoundTo(m, step) == ((m + step \div 2) \div step) * step

FormatG(x) ==
    IF x >= 0 THEN RoundTo(x, GStep(x)) ELSE 0 - RoundTo(0 - x, GStep(0 - x))

---------------------------------------------------------------------------
(* schemas/btree-indexes/makedata.py                                       *)

\* list(string.ascii_letters + string.digits), scaled to AlphaSize symbols
\* taken from the lower-case, upper-case and digit parts of the alphabet
letters ==
    [i \in 1..AlphaSize |->
        AsciiLettersDigits[(((i-1) * 26) % Len(AsciiLettersDigits)) + 1]]

\* gen_string(), for the drawn length and index draws
gen_string(js) == Sample(letters, js)

\* State of the datagen.py variables while makedata.py runs
IPIdle ==
    /\ argv = <<>> /\ fi = 1 /\ word_set = {} /\ word_list = <<>>
    /\ num = 0 /\ k = 0 /\ drawn = <<>> /\ str = <<>> /\ a = 0 /\ b = 0
    /\ errout = <<>>

InitPK ==
    /\ pc = "create" /\ err = "" /\ out = <<>> /\ id = 0
    /\ ids = <<>> /\ idx = 1 /\ s = <<>>
    /\ IPIdle

\* lines 4-10: print the CREATE TABLE statement, ids = range(50000)
PKCreate ==
    /\ pc = "create"
    /\ out' = Append(out, <<"CREATE">>)
    /\ ids' = [i \in 1..NumIds |-> i - 1]
    /\ pc' = "shuffle"
    /\ UNCHANGED <<err, id, idx, s, ipvars>>

\* line 11: random.shuffle(ids)
PKShuffle ==
    /\ pc = "shuffle"
    /\ \E js \in ShuffleDraws(Len(ids)) : ids' = Shuffle(ids, js)
    /\ pc' = "emit"
    /\ UNCHANGED <<err, out, id, idx, s, ipvars>>

\* lines 20-21: one iteration of `for id in ids`, gen_string() included
PKInsert ==
    /\ pc = "emit"
    /\ idx <= Len(ids)
    /\ id' = ids[idx]
    /\ \E length \in RandInt(MinLen, MaxLen) :
          IF length <= Len(letters)
          THEN /\ \E js \in Draws(Len(letters), length) : s' = gen_string(js)
               /\ out' = Append(out, <<"INSERT", ids[idx]>>)
               /\ idx' = idx + 1
               /\ UNCHANGED <<pc, err>>
          ELSE /\ pc' = "failed"
               /\ err' = "ValueError"
               /\ UNCHANGED <<out, idx, s>>
    /\ UNCHANGED <<ids, ipvars>>

\* line 23: print "\nQUIT;"
PKQuit ==
    /\ pc = "emit"
    /\ idx > Len(ids)
    /\ out' = Append(out, <<"QUIT">>)
    /\ pc' = "done"
    /\ UNCHANGED <<err, id, ids, idx, s, ipvars>>

NextPK == PKCreate \/ PKShuffle \/ PKInsert \/ PKQuit

SpecPK == InitPK /\ [][NextPK]_vars

---------------------------------------------------------------------------
(* schemas/insert-perf/datagen.py                                          *)

Rep(c, n) == [i \in 1..n |-> c]

apple  == <<"a","p","p","l","e">>
banana == <<"b","a","n","a","n","a">>
date   == <<"d","a","t","e">>
longx  == Rep("x", LongLen)
longy  == Rep("y", LongLen)

\* The word-list files of the runs considered: what f.readlines() returns.
FileNames == {"ex", "caps", "long", "missing"}

Readable(f) == f # "missing"

Contents(f) ==
    CASE f = "ex" ->
            << apple \o <<"\n">>,
               banana \o <<"\n">>,
               <<"c","h","e","r","r","y","'","s","\n">>,
               date \o <<"\n">> >>
      [] f = "caps" ->
            << <<"A","p","p","l","e","\n">>,
               <<"D","o","n","'","t","\n">>,
               <<" "," ","D","A","T","E"," ">> >>
      [] f = "long" ->
            << longx \o <<"\n">>, longy \o <<"\n">> >>
      [] OTHER -> <<>>

\* The argument lists of the runs considered
ArgvSet ==
    { <<>>, <<"ex">>, <<"caps">>, <<"long">>, <<"missing">>,
      <<"ex", "caps">>, <<"long", "caps">>,
      <<"ex", "missing">>, <<"missing", "caps">> }

\* Outcomes of random.random() considered where the value is printed or
\* compared, in units of 1/Unit: 0, 0.99995, 0.999996
RandVals == {0, 999950, 999996}

\* lines 9-13: the body of the loop over the lines of one file
\* (import_word_keep_case is the body without .lower())
import_word_keep_case(word, ws) ==
    IF HasApostrophe(word) THEN ws ELSE ws \cup {Strip(word)}

import_word(word, ws) ==
    IF HasApostrophe(word) THEN ws ELSE ws \cup {Lower(Strip(word))}

\* lines 8-13: for word in contents
RECURSIVE import_lines(_, _)
import_lines(contents, ws) ==
    IF contents = <<>> THEN ws
    ELSE import_lines(Tail(contents), import_word(Head(contents), ws))

\* import_words(filename), lines 5-13, for a file that opens
import_words(filename, ws) == import_lines(Contents(filename), ws)

\* line 20: range(1, 200001), scaled to NumRows rows
\* (RowIdsShort is range(1, 200000))
RowIdsShort == 1 .. (NumRows - 1)

RowIds == 1 .. NumRows

\* lines 23-24: truncate to 200 characters
\* (TruncateNever is the row without these lines)
TruncateNever(x) == x

Truncate(x) == IF Len(x) > MaxStrLen THEN SubSeq(x, 1, MaxStrLen) ELSE x

\* line 27: the threshold 0.005
DeleteProb == (5 * Unit) \div 1000

\* line 29: a = random.random() * 100.0
Percent(r) == r * 100

\* line 30: b = a + random.random() - 0.5
\* (DeleteBNoShift is the line without - 0.5)
DeleteBNoShift(av, r) == av + r

DeleteB(av, r) == av + r - Unit \div 2

\* line 25: print 'INSERT INTO insert_perf VALUES (%d, ...)'
PrintInsert(o, i) == Append(o, <<"INSERT", i>>)

\* line 31: print 'DELETE FROM insert_perf WHERE ...'
\* (PrintDeleteEarly is the DELETE printed ahead of the row's INSERT)
PrintDeleteEarly(o) ==
    IF o = <<>> THEN <<<<"DELETE">>>>
    ELSE SubSeq(o, 1, Len(o) - 1) \o <<<<"DELETE">>, o[Len(o)]>>

PrintDelete(o) == Append(o, <<"DELETE">>)

\* line 31: the two bounds as printed by %g
DeleteLo == FormatG(Min(a, b))
DeleteHi == FormatG(Max(a, b))

Init ==
    /\ pc = "import" /\ err = "" /\ out = <<>> /\ errout = <<>> /\ id = 0
    /\ ids = <<>> /\ idx = 1 /\ s = <<>>
    /\ argv \in ArgvSet
    /\ fi = 1 /\ word_set = {} /\ word_list = <<>>
    /\ num = 0 /\ k = 0 /\ drawn = <<>> /\ str = <<>> /\ a = 0 /\ b = 0

\* lines 15-17, a file that cannot be opened: open() raises IOError
\* (ImportSkip is the loop going on to the next file instead)
ImportSkip ==
    /\ pc = "import"
    /\ fi <= Len(argv)
    /\ ~Readable(argv[fi])
    /\ errout' = Append(errout, argv[fi])
    /\ fi' = fi + 1
    /\ UNCHANGED <<pc, err, out, id, pkvars, argv, word_set, word_list,
                   num, k, drawn, str, a, b>>

ImportFail ==
    /\ pc = "import"
    /\ fi <= Len(argv)
    /\ ~Readable(argv[fi])
    /\ errout' = Append(errout, argv[fi])
    /\ pc' = "failed"
    /\ err' = "IOError"
    /\ UNCHANGED <<out, id, pkvars, argv, fi, word_set, word_list,
                   num, k, drawn, str, a, b>>

\* lines 15-17, a file that opens: print the name, import its words
ImportOk ==
    /\ pc = "import"
    /\ fi <= Len(argv)
    /\ Readable(argv[fi])
    /\ errout' = Append(errout, argv[fi])
    /\ word_set' = import_words(argv[fi], word_set)
    /\ fi' = fi + 1
    /\ UNCHANGED <<pc, err, out, id, pkvars, argv, word_list,
                   num, k, drawn, str, a, b>>

\* lines 19-20: word_list = list(word_set); the loop takes its first id
BuildList ==
    /\ pc = "import"
    /\ fi > Len(argv)
    /\ word_list' = ListOf(word_set)
    /\ IF 1 \in RowIds THEN pc' = "row" /\ id' = 1
                       ELSE pc' = "done" /\ id' = id
    /\ UNCHANGED <<err, out, errout, pkvars, argv, fi, word_set,
                   num, k, drawn, str, a, b>>

\* line 20: the loop takes its next id, or ends
Advance ==
    IF id + 1 \in RowIds THEN pc' = "row" /\ id' = id + 1
                         ELSE pc' = "done" /\ id' = id

\* lines 21-25 when random.sample raises ValueError (k > len(word_list))
\* (SampleShort is a sample cut to the population size instead)
SampleShort ==
    /\ pc = "row"
    /\ \E r \in RandVals, kk \in RandInt(MinWords, MaxWords) :
          /\ kk > Len(word_list)
          /\ num' = Percent(r)
          /\ k' = kk
          /\ \E js \in Draws(Len(word_list), Len(word_list)) :
                drawn' = Sample(word_list, js)
          /\ str' = Truncate(Join(drawn'))
          /\ out' = PrintInsert(out, id)
    /\ pc' = "delete"
    /\ UNCHANGED <<err, errout, id, pkvars, argv, fi, word_set, word_list, a, b>>

SampleFail ==
    /\ pc = "row"
    /\ \E r \in RandVals, kk \in RandInt(MinWords, MaxWords) :
          /\ kk > Len(word_list)
          /\ num' = Percent(r)
          /\ k' = kk
    /\ pc' = "failed"
    /\ err' = "ValueError"
    /\ UNCHANGED <<out, errout, id, pkvars, argv, fi, word_set, word_list,
                   drawn, str, a, b>>

\* lines 21-25: num, the sentence, the truncation, the INSERT line
GenInsert ==
    /\ pc = "row"
    /\ \E r \in RandVals, kk \in RandInt(MinWords, MaxWords) :
          /\ kk <= Len(word_list)
          /\ num' = Percent(r)
          /\ k' = kk
          /\ \E js \in Draws(Len(word_list), kk) : drawn' = Sample(word_list, js)
          /\ str' = Truncate(Join(drawn'))
          /\ out' = PrintInsert(out, id)
    /\ pc' = "delete"
    /\ UNCHANGED <<err, errout, id, pkvars, argv, fi, word_set, word_list, a, b>>

\* line 27, condition false: no DELETE for this row
SkipDelete ==
    /\ pc = "delete"
    /\ \E r \in RandVals : ~(r <= DeleteProb)
    /\ Advance
    /\ UNCHANGED <<err, out, errout, pkvars, argv, fi, word_set, word_list,
                   num, k, drawn, str, a, b>>

\* lines 27-31, condition true: a, b and the DELETE line
EmitDelete ==
    /\ pc = "delete"
    /\ \E r \in RandVals : r <= DeleteProb
    /\ \E ra \in RandVals, rb \in RandVals :
          /\ a' = Percent(ra)
          /\ b' = DeleteB(a', rb)
    /\ out' = PrintDelete(out)
    /\ Advance
    /\ UNCHANGED <<err, errout, pkvars, argv, fi, word_set, word_list,
                   num, k, drawn, str>>

Next ==
    \/ ImportOk \/ ImportFail \/ BuildList
    \/ GenInsert \/ SampleFail \/ SkipDelete \/ EmitDelete

Spec == Init /\ [][Next]_vars

---------------------------------------------------------------------------
(* Properties.                                                             *)

\* The identifiers carried by the INSERT lines of an output, in order
InsertIdsOf(o) ==
    LET ins == SelectSeq(o, LAMBDA l : l[1] = "INSERT")
    IN  [i \in 1..Len(ins) |-> ins[i][2]]

Distinct(q) == \A i, j \in DOMAIN q : i # j => q[i] # q[j]

HasDelete == \E i \in DOMAIN out : out[i][1] = "DELETE"

\* Every input file has been opened and read (the file loop has ended)
Imported == pc # "import" /\ fi > Len(argv)

\* x.split(' ')
RECURSIVE SplitSpaces(_)
SplitSpaces(x) ==
    IF \E i \in DOMAIN x : x[i] = " "
    THEN LET i == CHOOSE i \in DOMAIN x :
                      x[i] = " " /\ \A j \in 1..(i-1) : x[j] # " "
         IN  <<SubSeq(x, 1, i-1)>> \o SplitSpaces(SubSeq(x, i+1, Len(x)))
    ELSE <<x>>

\* The lines of all the files of argv
AllLines == UNION {Range(Contents(argv[i])) : i \in DOMAIN argv}

(* C1: every run of the PK-Index Generator completes, the INSERT lines it  *)
(* prints carry pairwise different identifiers of 0..NumIds-1, and a       *)
(* finished run has printed exactly NumIds INSERT lines whose identifiers  *)
(* are exactly the set 0..NumIds-1.                                        *)
C1_AllIdsOnce ==
    LET e == InsertIdsOf(out)
    IN  /\ pc # "failed"
        /\ Distinct(e)
        /\ Range(e) \subseteq 0..(NumIds - 1)
        /\ pc = "done" => Len(e) = NumIds /\ Range(e) = 0..(NumIds - 1)

C1_Witness ==
    /\ pc = "done"
    /\ Len(InsertIdsOf(out)) = NumIds
    /\ InsertIdsOf(out)[1] = NumIds - 1
    /\ InsertIdsOf(out)[NumIds] # 0

(* C8: every payload gen_string returns has a length in MinLen..MaxLen,    *)
(* only characters of the 62-symbol alphabet [A-Za-z0-9], and no character *)
(* twice.                                                                  *)
C8_PayloadShape ==
    InsertIdsOf(out) # <<>> =>
        /\ Len(s) \in MinLen..MaxLen
        /\ Range(s) \subseteq Range(AsciiLettersDigits)
        /\ Cardinality(Range(AsciiLettersDigits)) = 62
        /\ Distinct(s)

C8_Witness ==
    /\ InsertIdsOf(out) # <<>>
    /\ Len(s) = MaxLen
    /\ \E i \in DOMAIN s : s[i] \in Range(AsciiUppercase)
    /\ \E i \in DOMAIN s : s[i] \in Range(Digits)

(* C2: in a run whose vocabulary has at least MaxWords words, no exception *)
(* ends the run, the ids of the INSERT lines printed so far are 1, 2, ...  *)
(* in order without a gap, and a finished run has printed exactly NumRows  *)
(* INSERT lines, however many DELETE lines lie between them.               *)
C2_InsertIds ==
    (Imported /\ Cardinality(word_set) >= MaxWords) =>
        LET e == InsertIdsOf(out)
        IN  /\ pc # "failed" /\ err = ""
            /\ e = [i \in 1..Len(e) |-> i]
            /\ pc = "done" => Len(e) = NumRows

C2_Witness ==
    /\ Imported /\ Cardinality(word_set) >= MaxWords
    /\ pc = "done"
    /\ InsertIdsOf(out) = [i \in 1..NumRows |-> i]
    /\ HasDelete

(* C3 as stated: for every emitted sentence the number of words drawn is   *)
(* in MinWords..MaxWords, the string is at most MaxStrLen long, and every  *)
(* word of the emitted sentence is a vocabulary word.                      *)
C3_Original ==
    pc = "delete" =>
        /\ k \in MinWords..MaxWords
        /\ Len(str) <= MaxStrLen
        /\ Range(SplitSpaces(str)) \subseteq word_set

(* C3 as amended: for every emitted sentence the number of words drawn is  *)
(* in MinWords..MaxWords, every drawn word is a vocabulary word, the       *)
(* string is at most MaxStrLen long and is the first min(length,           *)
(* MaxStrLen) characters of the space-join of the drawn words (so a        *)
(* truncated sentence may end in a fragment that is no vocabulary word).   *)
C3_Sentence ==
    pc = "delete" =>
        LET full == Join(drawn)
        IN  /\ k \in MinWords..MaxWords
            /\ Len(drawn) = k
            /\ Range(drawn) \subseteq word_set
            /\ Len(str) <= MaxStrLen
            /\ Len(str) = Min(Len(full), MaxStrLen)
            /\ \A i \in DOMAIN str : str[i] = full[i]

C3_Witness ==
    /\ pc = "delete"
    /\ Len(Join(drawn)) > MaxStrLen
    /\ Len(str) = MaxStrLen
    /\ ~(Range(SplitSpaces(str)) \subseteq word_set)

(* C4: once every input file is imported, the vocabulary is the set of the *)
(* stripped, lower-cased lines without apostrophe of those files; the file *)
(* with the lines apple, banana, cherry's, date gives {apple, banana,      *)
(* date}, and duplicates across files and letter case are absorbed.        *)
C4_Vocabulary ==
    Imported =>
        /\ word_set = {Lower(Strip(l)) : l \in {x \in AllLines : ~HasApostrophe(x)}}
        /\ argv = <<"ex">> => word_set = {apple, banana, date}
        /\ argv = <<"ex", "caps">> => word_set = {apple, banana, date}

C4_Witness ==
    /\ Imported
    /\ argv = <<"ex", "caps">>
    /\ Cardinality(word_set) = 3

(* C5 as stated: for every DELETE printed, lower bound <= upper bound,     *)
(* upper - lower <= 0.5, and both bounds lie in [-0.5, 100.5].             *)
C5_Original ==
    HasDelete =>
        /\ DeleteLo <= DeleteHi
        /\ DeleteHi - DeleteLo <= Unit \div 2
        /\ DeleteLo >= 0 - Unit \div 2
        /\ DeleteHi <= 100 * Unit + Unit \div 2

(* C5 as amended: for every DELETE printed, lower bound <= upper bound,    *)
(* both bounds lie in [-0.5, 100.5], and upper - lower is less than 0.501: *)
(* %g rounds each bound to six significant digits on its own, which can    *)
(* push the printed difference above 0.5.                                  *)
C5_Bounds ==
    HasDelete =>
        /\ DeleteLo <= DeleteHi
        /\ DeleteHi - DeleteLo < Unit \div 2 + Unit \div 1000
        /\ DeleteLo >= 0 - Unit \div 2
        /\ DeleteHi <= 100 * Unit + Unit \div 2

C5_Witness ==
    /\ HasDelete
    /\ DeleteHi - DeleteLo > Unit \div 2

(* C6 as stated: a run whose vocabulary has fewer than MinWords words (no  *)
(* file given included) is rejected before the sampling step: it does not  *)
(* end in the exception of random.sample, and prints no statement.         *)
C6_RejectedBeforeSampling ==
    (Imported /\ Cardinality(word_set) < MinWords /\ pc \in {"failed", "delete", "done"}) =>
        /\ pc = "failed"
        /\ err # "ValueError"
        /\ out = <<>>

(* C7: a run with an input file that cannot be opened never prints a       *)
(* statement and, once it has ended, has ended in IOError with only        *)
(* filenames on the error stream; and the first statement is printed only  *)
(* after every input file has been opened and read.                        *)
C7_NoPartialOutput ==
    /\ (\E i \in DOMAIN argv : ~Readable(argv[i])) =>
          /\ out = <<>>
          /\ pc \in {"import", "failed"}
          /\ pc = "failed" => err = "IOError"
    /\ errout = SubSeq(argv, 1, Len(errout))
    /\ out # <<>> =>
          /\ fi > Len(argv)
          /\ errout = argv
          /\ \A i \in DOMAIN argv : Readable(argv[i])

C7_Witness ==
    /\ pc = "failed" /\ err = "IOError"
    /\ fi = 2
    /\ word_set # {}
    /\ out = <<>>

(* C9: every DELETE line directly follows an INSERT line: the output does  *)
(* not start with a DELETE, no two DELETE lines are adjacent, and no       *)
(* prefix of the output holds more DELETE than INSERT lines.               *)
C9_DeleteFollowsInsert ==
    /\ \A j \in DOMAIN out :
          out[j][1] = "DELETE" => j > 1 /\ out[j-1][1] = "INSERT"
    /\ \A n \in 0..Len(out) :
          Cardinality({j \in 1..n : out[j][1] = "DELETE"})
              <= Cardinality({j \in 1..n : out[j][1] = "INSERT"})

C9_Witness ==
    /\ Len(out) = 4
    /\ out[2] = <<"DELETE">>
    /\ out[3] = <<"INSERT", 2>>
    /\ out[4] = <<"DELETE">>

(* C10: with MinWords <= n < MaxWords vocabulary words, every emitted      *)
(* sentence is built from exactly the k drawn, pairwise different          *)
(* vocabulary words, k <= n; the run ends at the first row that draws      *)
(* k > n, in the ValueError of random.sample, with the INSERT lines of     *)
(* ids 1..id-1 printed and no line of id or later.                         *)
C10_AbortOnLargeDraw ==
    LET n == Cardinality(word_set)
    IN  (Imported /\ MinWords <= n /\ n < MaxWords) =>
            /\ pc = "delete" =>
                  /\ k <= n /\ Len(drawn) = k
                  /\ Distinct(drawn)
                  /\ Range(drawn) \subseteq word_set
                  /\ Len(str) = Min(Len(Join(drawn)), MaxStrLen)
            /\ k > n <=> pc = "failed"
            /\ pc = "failed" =>
                  /\ err = "ValueError"
                  /\ InsertIdsOf(out) = [i \in 1..(id - 1) |-> i]
            /\ \A i \in DOMAIN out : out[i][1] = "INSERT" => out[i][2] <= id

C10_Witness ==
    /\ Imported
    /\ Cardinality(word_set) = MinWords
    /\ pc = "failed" /\ err = "ValueError"
    /\ id = 2
    /\ InsertIdsOf(out) = <<1>>

====
